---- MODULE Spec2Model ----
(***************************************************************************)
(* FileChat backend: the text chunker (word_processor.py,                  *)
(* excel_processor.py), the vector store wrapper around a ChromaDB         *)
(* collection (vector_store.py) and the retrieval-augmented answerer       *)
(* (chat_engine.py).                                                       *)
(*                                                                         *)
(* Three specifications share the variables:                               *)
(*   SpecChunk  the pure function split_into_chunks applied to bounded     *)
(*              inputs;                                                    *)
(*   Spec       the operations on the shared VectorStore / ChatEngine;     *)
(*   SpecIndex  the /index and /chat handlers of server.py on that store.  *)
(***************************************************************************)
EXTENDS Integers, Sequences, FiniteSets, TLC

VARIABLES
    exists,     \* the client has a collection named COLLECTION_NAME
    entries,    \* that collection's rows: id -> [embedding, document, metadata]
    handle,     \* VectorStore.collection: "live" (refers to the existing collection) or "stale"
    last,       \* the last call made on the store / engine, its inputs and its outcome
    ck,         \* one call of split_into_chunks: inputs, position, result
    req         \* the /index request being served: position, files handled, response

vars == <<exists, entries, handle, last, ck, req>>

(***************************************************************************)
(* Bounds of the model.                                                    *)
(***************************************************************************)
MaxLen == 5          \* characters of a text handed to split_into_chunks
MaxChunkSize == 3    \* largest chunk_size tried
MaxChunks == 1       \* chunks of one add_documents call (the report also has three)
MaxN == 1            \* largest n_results of a direct search call

Min(a, b) == IF a < b THEN a ELSE b
Abs(a) == IF a < 0 THEN 0 - a ELSE a

(***************************************************************************)
(* Python None, for Optional[str] arguments.  No folder is named so.       *)
(***************************************************************************)
None == "<None>"

\* Python truth value of an Optional[str]: None and "" are falsy.
Truthy(s) == s # None /\ s # ""

(***************************************************************************)
(* Text chunker.  A text is a sequence of one-character strings, a word a  *)
(* non-empty sequence of non-space characters, a chunk the words of one    *)
(* window joined by single blanks.                                         *)
(***************************************************************************)
WhiteSpace == {" ", "\n"}
Letters == {"a", "b"}
Chars == Letters \cup WhiteSpace

TextsUpTo(n) == UNION {[1..k -> Chars] : k \in 0..n}

\* str.split() with no separator: maximal runs of non-whitespace characters.
RECURSIVE split_from(_, _, _)
split_from(text, i, cur) ==
    IF i > Len(text)
    THEN IF cur = <<>> THEN <<>> ELSE <<cur>>
    ELSE IF text[i] \in WhiteSpace
         THEN IF cur = <<>>
              THEN split_from(text, i + 1, <<>>)
              ELSE <<cur>> \o split_from(text, i + 1, <<>>)
         ELSE split_from(text, i + 1, Append(cur, text[i]))

str_split(text) == split_from(text, 1, <<>>)

\* ' '.join(ws)
RECURSIVE join(_)
join(ws) ==
    IF ws = <<>> THEN <<>>
    ELSE IF Len(ws) = 1 THEN ws[1]
    ELSE ws[1] \o <<" ">> \o join(Tail(ws))

\* words[i:j] for 0 <= i, 0 <= j (0-based, end exclusive, clipped to the list)
Slice(words, i, j) == SubSeq(words, i + 1, Min(j, Len(words)))

\* the body of "for i in range(i, len(words), step)" for step > 0
RECURSIVE chunk_loop(_, _, _, _, _)
chunk_loop(words, i, step, chunk_size, chunks) ==
    IF i >= Len(words)
    THEN chunks
    ELSE LET chunk == join(Slice(words, i, i + chunk_size))
         IN  chunk_loop(words, i + step, step, chunk_size,
                        IF chunk # <<>> THEN Append(chunks, chunk) ELSE chunks)

\* split_into_chunks advancing one word too far: a step of chunk_size - overlap + 1.
split_into_chunks_overstep(text, chunk_size, overlap) ==
    LET words == str_split(text)
        step == chunk_size - overlap
    IN  IF step = 0
        THEN [chunks |-> <<>>, kind |-> "raise", error |-> "ValueError"]
        ELSE IF step < 0
        THEN [chunks |-> <<>>, kind |-> "return", error |-> ""]
        ELSE [chunks |-> chunk_loop(words, 0, step + 1, chunk_size, <<>>), kind |-> "return",
              error |-> ""]

\* WordProcessor.split_into_chunks.  range(0, n, step) raises ValueError for step = 0
\* and is empty for step < 0.
split_into_chunks(text, chunk_size, overlap) ==
    LET words == str_split(text)
        step == chunk_size - overlap
    IN  IF step = 0
        THEN [chunks |-> <<>>, kind |-> "raise", error |-> "ValueError"]
        ELSE IF step < 0
        THEN [chunks |-> <<>>, kind |-> "return", error |-> ""]
        ELSE [chunks |-> chunk_loop(words, 0, step, chunk_size, <<>>), kind |-> "return",
              error |-> ""]

\* ExcelProcessor.split_into_chunks: the same code in the other processor.
excel_split_into_chunks(text, chunk_size, overlap) ==
    LET words == str_split(text)
        step == chunk_size - overlap
    IN  IF step = 0
        THEN [chunks |-> <<>>, kind |-> "raise", error |-> "ValueError"]
        ELSE IF step < 0
        THEN [chunks |-> <<>>, kind |-> "return", error |-> ""]
        ELSE [chunks |-> chunk_loop(words, 0, step, chunk_size, <<>>), kind |-> "return",
              error |-> ""]

NoResult == [chunks |-> <<>>, kind |-> "none", error |-> ""]

CkIdle == [text |-> <<>>, chunk_size |-> 0, overlap |-> 0, processor |-> "none",
           pc |-> "idle", result |-> NoResult]

(***************************************************************************)
(* Vector store.  The ChromaDB client and the OpenAI client are external:  *)
(* their calls are modelled by their documented behaviour at the call      *)
(* sites of vector_store.py, and their failures are inputs of the          *)
(* operations.                                                             *)
(***************************************************************************)
Texts == {"a", "b"}                      \* chunk texts, and query texts
Queries == Texts

\* the files handed to add_documents: extract_text's file_path and file_name, the
\* caller's file_type.  scan_directory("/docs/a") finds /docs/a/report.pdf and
\* scan_directory("") finds the files of the working directory.
Report == [file_path |-> "/docs/a/report.pdf", file_name |-> "report.pdf", file_type |-> "PDF"]
Notes == [file_path |-> "notes.docx", file_name |-> "notes.docx", file_type |-> "Word"]

\* (file, folder_path of the request) as index_folder pairs them
Indexable == {
    [file |-> Report, folder_path |-> "/docs/a"],
    [file |-> Notes, folder_path |-> ""] }

\* the chunk lists a file can come to: any list of at most MaxChunks texts, and for
\* the report also a list of three chunks
ThreeChunks == <<"a", "b", "a">>
ChunkListsOf(f) ==
    UNION {[1..k -> Texts] : k \in 0..MaxChunks} \cup (IF f = Report THEN {ThreeChunks} ELSE {})

\* the files scan_directory finds in /docs/a: one Word document, one Excel workbook
NotesDoc == [file_path |-> "/docs/a/notes.docx", file_name |-> "notes.docx", file_type |-> "Word"]
Sheet == [file_path |-> "/docs/a/sheet.xlsx", file_name |-> "sheet.xlsx", file_type |-> "Excel"]

Folders == {x.folder_path : x \in Indexable}

\* folder_path of a search: a folder of an add, a folder nothing was added under, absent
Filters == Folders \cup {"/docs/b", None}

\* hashlib.md5(path.encode()).hexdigest(): a digest, one per path
file_id_of(path) == <<"md5", path>>

\* f"{file_id}_{i}"
entry_id(file_id, i) == <<file_id, i>>

\* text-embedding-3-small: one vector per text, equal texts give equal vectors and
\* different texts different ones (a point on a line stands for the vector).
Embedding(text) == CASE text = "a" -> 0 [] text = "b" -> 1 [] OTHER -> 2

Distance(u, v) == Abs(u - v)

NoEntries == [x \in {} |-> {}]

Store == [exists |-> exists, entries |-> entries, handle |-> handle]

\* create_embeddings: the vectors, or [] when the call raised or returned nothing
create_embeddings(texts, embed_ok) ==
    IF embed_ok THEN [i \in 1..Len(texts) |-> Embedding(texts[i])] ELSE <<>>

\* the metadatas list built by add_documents
metadatas_of(chunks, metadata) ==
    [i \in 1..Len(chunks) |->
        [file_path |-> metadata.file_path,
         file_name |-> metadata.file_name,
         file_type |-> metadata.file_type,
         folder_path |-> metadata.folder_path,
         chunk_index |-> i - 1]]

\* chromadb Collection.add: a row whose id is already in the collection is ignored
\* (the existing row is kept; upsert is the call that replaces).
collection_add(ents, ids, embeddings, documents, metadatas) ==
    LET new == {ids[i] : i \in 1..Len(ids)} \ DOMAIN ents
        pos(x) == CHOOSE i \in 1..Len(ids) : ids[i] = x
    IN  [x \in (DOMAIN ents) \cup new |->
            IF x \in new
            THEN [metadata |-> metadatas[pos(x)], embedding |-> embeddings[pos(x)],
                  document |-> documents[pos(x)]]
            ELSE ents[x]]

\* add_documents without the "if not embeddings: return" test: collection.add is
\* handed an empty embeddings list and raises.
add_documents_unchecked(st, chunks, metadata, file_id, env) ==
    IF chunks = <<>>
    THEN [kind |-> "return", st |-> st, outcome |-> "noop", embed_calls |-> 0]
    ELSE LET embeddings == create_embeddings(chunks, env.embed_ok)
             ids == [i \in 1..Len(chunks) |-> entry_id(file_id, i - 1)]
             metadatas == metadatas_of(chunks, metadata)
         IN  IF embeddings = <<>> \/ st.handle # "live" \/ ~env.index_ok
             THEN [kind |-> "raise", st |-> st, outcome |-> "raised", embed_calls |-> 1]
             ELSE [kind |-> "return",
                   st |-> [st EXCEPT !.entries =
                               collection_add(st.entries, ids, embeddings, chunks, metadatas)],
                   outcome |-> "stored", embed_calls |-> 1]

\* VectorStore.add_documents.  env.embed_ok: the embedding call answers;
\* env.index_ok: the collection accepts the write.
add_documents(st, chunks, metadata, file_id, env) ==
    IF chunks = <<>>
    THEN [kind |-> "return", st |-> st, outcome |-> "noop", embed_calls |-> 0]
    ELSE LET embeddings == create_embeddings(chunks, env.embed_ok)
             ids == [i \in 1..Len(chunks) |-> entry_id(file_id, i - 1)]
             metadatas == metadatas_of(chunks, metadata)
         IN  IF embeddings = <<>>
             THEN [kind |-> "return", st |-> st, outcome |-> "embed_failed", embed_calls |-> 1]
             ELSE IF st.handle # "live" \/ ~env.index_ok
             THEN [kind |-> "raise", st |-> st, outcome |-> "raised", embed_calls |-> 1]
             ELSE [kind |-> "return",
                   st |-> [st EXCEPT !.entries =
                               collection_add(st.entries, ids, embeddings, chunks, metadatas)],
                   outcome |-> "stored", embed_calls |-> 1]

\* the where clause of search: None is {}, {"folder_path": v} is {<<"folder_path", v>>}
where_clause_of(folder_path) ==
    IF Truthy(folder_path) THEN {<<"folder_path", folder_path>>} ELSE {}

\* the rows a where clause admits: equality on every named metadata field
Admitted(ents, where) ==
    {x \in DOMAIN ents : \A w \in where : ents[x].metadata[w[1]] = w[2]}

\* the position of a row in the collection's own order (by file, then by chunk)
RowOrder(x) ==
    (CASE x[1] = file_id_of(Report.file_path) -> 0
       [] x[1] = file_id_of(Sheet.file_path) -> 200
       [] OTHER -> 100) + x[2]

\* at most k of cands, nearest to q first; rows at equal distance come in the
\* collection's order (dir = 1) or in its reverse (dir = -1)
RECURSIVE Ranked(_, _, _, _, _)
Ranked(ents, cands, q, k, dir) ==
    IF k = 0 \/ cands = {}
    THEN <<>>
    ELSE LET Before(x, y) ==
                 \/ Distance(ents[x].embedding, q) < Distance(ents[y].embedding, q)
                 \/ /\ Distance(ents[x].embedding, q) = Distance(ents[y].embedding, q)
                    /\ dir * RowOrder(x) <= dir * RowOrder(y)
             first == CHOOSE x \in cands : \A y \in cands : Before(x, y)
         IN  <<first>> \o Ranked(ents, cands \ {first}, q, k - 1, dir)

\* chromadb Collection.query for one query embedding: one result slot, the lists
\* it can hold
collection_query(ents, q, n_results, where) ==
    {LET r == Ranked(ents, Admitted(ents, where), q, n_results, dir)
     IN  [kind |-> "return",
          documents |-> <<[i \in 1..Len(r) |-> ents[r[i]].document]>>,
          metadatas |-> <<[i \in 1..Len(r) |-> ents[r[i]].metadata]>>]
        : dir \in {1, 0 - 1}}

SearchRaised == [kind |-> "raise", documents |-> <<>>, metadatas |-> <<>>]
SearchNoEmbedding == [kind |-> "return", documents |-> <<>>, metadatas |-> <<>>]

\* VectorStore.search: the set of results it can return
search(st, query, n_results, folder_path, env) ==
    LET query_embedding == create_embeddings(<<query>>, env.embed_ok)
    IN  IF query_embedding = <<>>
        THEN {SearchNoEmbedding}
        ELSE IF st.handle # "live" \/ ~env.index_ok
        THEN {SearchRaised}
        ELSE collection_query(st.entries, query_embedding[1], n_results,
                              where_clause_of(folder_path))

\* sorted(list(folders)) over the folder names of the model
FolderRank(f) == CASE f = "" -> 0 [] f = "/docs/a" -> 1 [] f = "/docs/a/" -> 2
                      [] f = "/docs/b" -> 3 [] OTHER -> 4

RECURSIVE sorted(_)
sorted(S) ==
    IF S = {} THEN <<>>
    ELSE LET m == CHOOSE x \in S : \A y \in S : FolderRank(x) <= FolderRank(y)
         IN  <<m>> \o sorted(S \ {m})

GetLimit == 10000

\* VectorStore.get_indexed_folders
get_indexed_folders(st, env) ==
    IF st.handle # "live" \/ ~env.index_ok
    THEN <<>>
    ELSE LET scanned == IF Cardinality(DOMAIN st.entries) <= GetLimit
                        THEN DOMAIN st.entries
                        ELSE CHOOSE S \in SUBSET DOMAIN st.entries : Cardinality(S) = GetLimit
             folders == {st.entries[x].metadata.folder_path : x \in scanned} \ {""}
         IN  sorted(folders)

\* clear_collection reporting success whether or not the fallback worked
clear_collection_always_true(st, env) ==
    LET del_ok == st.exists /\ env.delete_ok
        st1 == IF del_ok THEN [exists |-> FALSE, entries |-> NoEntries, handle |-> "stale"]
               ELSE st
        create_ok == ~st1.exists /\ env.create_ok
    IN  IF create_ok
        THEN [kind |-> "return",
              st |-> [exists |-> TRUE, entries |-> NoEntries, handle |-> "live"],
              ret |-> TRUE, delete |-> del_ok, create |-> TRUE, fallback |-> "skipped"]
        ELSE IF env.fallback_ok
        THEN [kind |-> "return",
              st |-> [exists |-> TRUE, entries |-> st1.entries, handle |-> "live"],
              ret |-> TRUE, delete |-> del_ok, create |-> FALSE, fallback |-> "ok"]
        ELSE [kind |-> "return", st |-> st1, ret |-> TRUE,
              delete |-> del_ok, create |-> FALSE, fallback |-> "failed"]

\* VectorStore.clear_collection.  delete_collection raises when the collection
\* does not exist or the delete fails; create_collection raises when the name
\* exists or the create fails; get_or_create_collection raises when it fails.
clear_collection(st, env) ==
    LET del_ok == st.exists /\ env.delete_ok
        st1 == IF del_ok THEN [exists |-> FALSE, entries |-> NoEntries, handle |-> "stale"]
               ELSE st
        create_ok == ~st1.exists /\ env.create_ok
    IN  IF create_ok
        THEN [kind |-> "return",
              st |-> [exists |-> TRUE, entries |-> NoEntries, handle |-> "live"],
              ret |-> TRUE, delete |-> del_ok, create |-> TRUE, fallback |-> "skipped"]
        ELSE IF env.fallback_ok
        THEN [kind |-> "return",
              st |-> [exists |-> TRUE, entries |-> st1.entries, handle |-> "live"],
              ret |-> TRUE, delete |-> del_ok, create |-> FALSE, fallback |-> "ok"]
        ELSE [kind |-> "return", st |-> st1, ret |-> FALSE,
              delete |-> del_ok, create |-> FALSE, fallback |-> "failed"]

(***************************************************************************)
(* Retrieval-augmented answerer (chat_engine.py).                          *)
(***************************************************************************)
NResults == 5

NoResultsMessage == "I couldn't find any relevant information in your documents. Please make sure you've indexed some files first."
ModelOutput == "model output"
ErrorAnswer == "Error calling OpenAI API: detail"

\* the outcomes of OPENAI_CLIENT.chat.completions.create and of reading
\* response.choices[0].message.content
Completions == {"ok", "exception", "malformed"}

\* the gate with its second test left out
no_documents_first_test_only(search_results) ==
    search_results.documents = <<>>

\* "not search_results['documents'] or not search_results['documents'][0]"
no_documents(search_results) ==
    search_results.documents = <<>> \/ search_results.documents[1] = <<>>

\* the sources loop without its "if source not in sources" test
RECURSIVE collect_sources_all(_, _)
collect_sources_all(metadatas, sources) ==
    IF metadatas = <<>> THEN sources
    ELSE collect_sources_all(Tail(metadatas), Append(sources, Head(metadatas).file_name))

\* "for metadata in search_results['metadatas'][0]: ... sources.append(source)"
RECURSIVE collect_sources(_, _)
collect_sources(metadatas, sources) ==
    IF metadatas = <<>> THEN sources
    ELSE LET source == Head(metadatas).file_name
         IN  collect_sources(Tail(metadatas),
                             IF \E i \in 1..Len(sources) : sources[i] = source
                             THEN sources ELSE Append(sources, source))

\* ask_question with the read of response.choices[0].message.content moved below
\* the try block: a malformed response is no longer caught.
answer_from_read_after_try(search_results, completion) ==
    IF search_results.kind = "raise"
    THEN [kind |-> "raise", search |-> search_results, sources |-> <<>>, answer |-> "",
          status |-> "", completion_calls |-> 0]
    ELSE IF no_documents(search_results)
    THEN [kind |-> "return", search |-> search_results, sources |-> <<>>,
          answer |-> NoResultsMessage, status |-> "no_results", completion_calls |-> 0]
    ELSE LET sources == collect_sources(search_results.metadatas[1], <<>>)
         IN  IF completion = "ok"
             THEN [kind |-> "return", search |-> search_results, sources |-> sources,
                   answer |-> ModelOutput, status |-> "success", completion_calls |-> 1]
             ELSE IF completion = "malformed"
             THEN [kind |-> "raise", search |-> search_results, sources |-> <<>>,
                   answer |-> "", status |-> "", completion_calls |-> 1]
             ELSE [kind |-> "return", search |-> search_results, sources |-> <<>>,
                   answer |-> ErrorAnswer, status |-> "error", completion_calls |-> 1]

\* ChatEngine.ask_question after search returned search_results
answer_from(search_results, completion) ==
    IF search_results.kind = "raise"
    THEN [kind |-> "raise", search |-> search_results, sources |-> <<>>, answer |-> "",
          status |-> "", completion_calls |-> 0]
    ELSE IF no_documents(search_results)
    THEN [kind |-> "return", search |-> search_results, sources |-> <<>>,
          answer |-> NoResultsMessage, status |-> "no_results", completion_calls |-> 0]
    ELSE LET sources == collect_sources(search_results.metadatas[1], <<>>)
         IN  IF completion = "ok"
             THEN [kind |-> "return", search |-> search_results, sources |-> sources,
                   answer |-> ModelOutput, status |-> "success", completion_calls |-> 1]
             ELSE [kind |-> "return", search |-> search_results, sources |-> <<>>,
                   answer |-> ErrorAnswer, status |-> "error", completion_calls |-> 1]

\* ChatEngine.ask_question: the set of results it can give
ask_question(st, question, folder_path, env) ==
    {answer_from(sr, env.completion) : sr \in search(st, question, NResults, folder_path, env)}

(***************************************************************************)
(* State machine.                                                          *)
(***************************************************************************)
Idle == [op |-> "none"]

NoResponse == [kind |-> "none"]

ReqIdle == [i |-> 0, pc |-> "idle", folder_path |-> "", files |-> <<>>, handled |-> <<>>,
            indexed |-> <<>>, response |-> NoResponse]

InitStore ==
    /\ exists = TRUE
    /\ entries = NoEntries
    /\ handle = "live"
    /\ last = Idle
    /\ req = ReqIdle

Init ==
    /\ InitStore
    /\ ck = CkIdle

\* what the remote services do during one call: all answer, the embedding call
\* fails, the collection call fails
IoEnv == {[embed_ok |-> TRUE, index_ok |-> TRUE],
          [embed_ok |-> FALSE, index_ok |-> TRUE],
          [embed_ok |-> TRUE, index_ok |-> FALSE]}

AskEnv == {[embed_ok |-> e.embed_ok, index_ok |-> e.index_ok, completion |-> "ok"] : e \in IoEnv}
          \cup {[embed_ok |-> TRUE, index_ok |-> TRUE, completion |-> c] : c \in Completions}

ClearEnv == [delete_ok : BOOLEAN, create_ok : BOOLEAN, fallback_ok : BOOLEAN]

\* vector_store.add_documents(chunks, {...}, file_id)
AddDocuments ==
    \E x \in Indexable, env \in IoEnv : \E chunks \in ChunkListsOf(x.file) :
        LET f == x.file
            metadata == [file_path |-> f.file_path, file_name |-> f.file_name,
                         file_type |-> f.file_type, folder_path |-> x.folder_path]
            r == add_documents(Store, chunks, metadata, file_id_of(f.file_path), env)
        IN  /\ exists' = r.st.exists
            /\ entries' = r.st.entries
            /\ handle' = r.st.handle
            /\ last' = [chunks |-> chunks, kind |-> r.kind, file_id |-> file_id_of(f.file_path),
                        embed_ok |-> env.embed_ok, metadata |-> metadata,
                        outcome |-> r.outcome, embed_calls |-> r.embed_calls,
                        op |-> "add"]
            /\ UNCHANGED <<ck, req>>

\* vector_store.search(query, n_results, folder_path)
Search ==
    \E query \in Queries, n \in 1..MaxN, folder \in Filters, env \in IoEnv :
        \E r \in search(Store, query, n, folder, env) :
            /\ last' = [result |-> r, folder_path |-> folder, embed_ok |-> env.embed_ok,
                        n_results |-> n, query |-> query, op |-> "search"]
            /\ UNCHANGED <<exists, entries, handle, ck, req>>

\* vector_store.get_indexed_folders()
GetIndexedFolders ==
    \E env \in IoEnv :
        /\ last' = [result |-> get_indexed_folders(Store, env), op |-> "folders"]
        /\ UNCHANGED <<exists, entries, handle, ck, req>>

\* vector_store.clear_collection()
ClearCollection ==
    \E env \in ClearEnv :
        LET r == clear_collection(Store, env)
        IN  /\ exists' = r.st.exists
            /\ entries' = r.st.entries
            /\ handle' = r.st.handle
            /\ last' = [kind |-> r.kind, ret |-> r.ret, delete |-> r.delete, create |-> r.create,
                        fallback |-> r.fallback, op |-> "clear", existed |-> exists]
            /\ UNCHANGED <<ck, req>>

\* chat_engine.ask_question(question, folder_path)
AskQuestion ==
    \E question \in Queries, folder \in Filters, env \in AskEnv :
        \E r \in ask_question(Store, question, folder, env) :
            /\ last' = [result |-> r, folder_path |-> folder, embed_ok |-> env.embed_ok,
                        completion |-> env.completion, question |-> question,
                        op |-> "ask"]
            /\ UNCHANGED <<exists, entries, handle, ck, req>>

Next ==
    \/ AddDocuments
    \/ Search
    \/ GetIndexedFolders
    \/ ClearCollection
    \/ AskQuestion

Spec == Init /\ [][Next]_vars

(***************************************************************************)
(* The chunker applied to bounded inputs.                                  *)
(***************************************************************************)
InitChunk ==
    /\ InitStore
    /\ \E text \in TextsUpTo(MaxLen), chunk_size \in 0..MaxChunkSize,
          overlap \in (0 - 1)..(MaxChunkSize + 1), processor \in {"word", "excel"} :
            ck = [text |-> text, chunk_size |-> chunk_size, overlap |-> overlap,
                  processor |-> processor, pc |-> "call", result |-> NoResult]

WordSplit ==
    /\ ck.pc = "call"
    /\ ck.processor = "word"
    /\ ck' = [ck EXCEPT !.pc = "done",
                        !.result = split_into_chunks(ck.text, ck.chunk_size, ck.overlap)]
    /\ UNCHANGED <<exists, entries, handle, last, req>>

ExcelSplit ==
    /\ ck.pc = "call"
    /\ ck.processor = "excel"
    /\ ck' = [ck EXCEPT !.pc = "done",
                        !.result = excel_split_into_chunks(ck.text, ck.chunk_size, ck.overlap)]
    /\ UNCHANGED <<exists, entries, handle, last, req>>

NextChunk ==
    \/ WordSplit
    \/ ExcelSplit

SpecChunk == InitChunk /\ [][NextChunk]_vars

(***************************************************************************)
(* HTTP handlers of server.py on the shared store: /index and /chat.       *)
(* index_folder makes one collection call per discovered file; the model   *)
(* takes the handler from one such call to the next, so that a /chat       *)
(* request can be served between the files of an /index request.           *)
(***************************************************************************)
CHUNK_SIZE == 500
CHUNK_OVERLAP == 50

FileTypes == <<"PDF", "Word", "PowerPoint", "Excel">>

\* folder_path of an /index request: a folder with documents, a folder without
IndexFolders == {"/docs/a", "/docs/none"}

\* <processor>.scan_directory(directory_path), by the file type of the processor;
\* /docs/a holds no PDF and no PowerPoint file, /docs/none no document
scan_directory(file_type, directory_path) ==
    IF directory_path # "/docs/a" THEN <<>>
    ELSE CASE file_type = "Word" -> <<NotesDoc>>
           [] file_type = "Excel" -> <<Sheet>>
           [] OTHER -> <<>>

\* the chunk lists a file's text can come to under CHUNK_SIZE and CHUNK_OVERLAP:
\* no chunk (a text without words), one chunk, two chunks
IndexChunkLists == {<<>>, <<"a">>, <<"b", "a">>}

\* extract_text on a discovered file: it fails (status error), or it returns the
\* text, named here by the chunks split_into_chunks cuts it into
Extractions ==
    {[chunks |-> <<>>, status |-> "error"]}
        \cup {[chunks |-> c, status |-> "success"] : c \in IndexChunkLists}

\* whether <processor>.split_into_chunks(text, CHUNK_SIZE, CHUNK_OVERLAP) returns
\* or raises: decided by the step alone, whatever the text
split_kind(file_type) ==
    IF file_type = "Excel"
    THEN excel_split_into_chunks(<<>>, CHUNK_SIZE, CHUNK_OVERLAP).kind
    ELSE split_into_chunks(<<>>, CHUNK_SIZE, CHUNK_OVERLAP).kind

\* one pass of a "for ..._path in ..._files" loop of index_folder
index_file(st, file, folder_path, x, env) ==
    IF x.status # "success"
    THEN [kind |-> "return", st |-> st, outcome |-> "extract_failed", appended |-> FALSE]
    ELSE IF split_kind(file.file_type) = "raise"
    THEN [kind |-> "raise", st |-> st, outcome |-> "raised", appended |-> FALSE]
    ELSE LET metadata == [file_path |-> file.file_path, file_name |-> file.file_name,
                          file_type |-> file.file_type, folder_path |-> folder_path]
             r == add_documents(st, x.chunks, metadata, file_id_of(file.file_path), env)
         IN  IF r.kind = "raise"
             THEN [kind |-> "raise", st |-> r.st, outcome |-> r.outcome, appended |-> FALSE]
             ELSE [kind |-> "return", st |-> r.st, outcome |-> r.outcome, appended |-> TRUE]

NoneIndexed == [t \in {FileTypes[k] : k \in 1..4} |-> <<>>]

\* "except Exception as e: raise HTTPException(status_code=500, ...)"
Http500 == [kind |-> "http_500"]

NoFiles == [kind |-> "return", status |-> "no_files"]

\* the summary index_folder returns after its loops
summary(indexed, folder_path) ==
    LET all_indexed_files == indexed["PDF"] \o indexed["Word"] \o indexed["PowerPoint"]
                                 \o indexed["Excel"]
    IN  [kind |-> "return", folder_path |-> folder_path, status |-> "success",
         indexed_files |-> all_indexed_files,
         total_files |-> Len(all_indexed_files),
         pdf_count |-> Len(indexed["PDF"]),
         word_count |-> Len(indexed["Word"]),
         pp_count |-> Len(indexed["PowerPoint"]),
         excel_count |-> Len(indexed["Excel"])]

\* the /chat requests made while indexing
ChatRequests == {[folder_path |-> f, question |-> q] : q \in Queries, f \in {None, "/docs/a"}}

ChatEnv == {[embed_ok |-> TRUE, index_ok |-> TRUE, completion |-> "ok"],
            [embed_ok |-> TRUE, index_ok |-> FALSE, completion |-> "ok"]}

\* the /chat handler: the result of ask_question, or HTTP 500 when it raises
chat(st, request, env) ==
    {IF r.kind = "raise" THEN [kind |-> "http_500", result |-> r]
                         ELSE [kind |-> "return", result |-> r]
        : r \in ask_question(st, request.question, request.folder_path, env)}

\* index_folder from its start to the first file: the four scans and the
\* no_files test
IndexScan ==
    /\ req.pc \in {"idle", "done"}
    /\ \E folder \in IndexFolders :
           LET files == scan_directory("PDF", folder) \o scan_directory("Word", folder)
                            \o scan_directory("PowerPoint", folder)
                            \o scan_directory("Excel", folder)
           IN  req' = IF files = <<>>
                      THEN [i |-> 0, pc |-> "done", folder_path |-> folder, files |-> files,
                            handled |-> <<>>, indexed |-> NoneIndexed, response |-> NoFiles]
                      ELSE [i |-> 1, pc |-> "files", folder_path |-> folder, files |-> files,
                            handled |-> <<>>, indexed |-> NoneIndexed,
                            response |-> NoResponse]
    /\ last' = [op |-> "index"]
    /\ UNCHANGED <<exists, entries, handle, ck>>

\* index_folder on its next file, and to its end when that was the last file or
\* the file's add raised
IndexFile ==
    /\ req.pc = "files"
    /\ \E x \in Extractions, env \in IoEnv :
           LET file == req.files[req.i]
               r == index_file(Store, file, req.folder_path, x, env)
               indexed == IF r.appended
                          THEN [req.indexed EXCEPT ![file.file_type] = Append(@, file.file_name)]
                          ELSE req.indexed
               handled == Append(req.handled,
                                 [chunks |-> x.chunks, file |-> file, outcome |-> r.outcome,
                                  status |-> x.status])
           IN  /\ exists' = r.st.exists
               /\ entries' = r.st.entries
               /\ handle' = r.st.handle
               /\ req' = IF r.kind = "raise"
                         THEN [req EXCEPT !.pc = "done", !.handled = handled,
                                          !.response = Http500]
                         ELSE IF req.i = Len(req.files)
                         THEN [req EXCEPT !.pc = "done", !.handled = handled,
                                          !.indexed = indexed,
                                          !.response = summary(indexed, req.folder_path)]
                         ELSE [req EXCEPT !.i = req.i + 1, !.handled = handled,
                                          !.indexed = indexed]
    /\ last' = [op |-> "index"]
    /\ UNCHANGED ck

\* a /chat request served now
Chat ==
    \E request \in ChatRequests, env \in ChatEnv :
        \E r \in chat(Store, request, env) :
            /\ last' = [op |-> "chat", response |-> r, request |-> request]
            /\ UNCHANGED <<exists, entries, handle, ck, req>>

NextIndex ==
    \/ IndexScan
    \/ IndexFile
    \/ Chat

SpecIndex == Init /\ [][NextIndex]_vars

(***************************************************************************)
(* Properties of the chunker (SpecChunk).                                  *)
(***************************************************************************)
CkWords == str_split(ck.text)
CkStep == ck.chunk_size - ck.overlap

\* the k-th window (k = 0, 1, ...) of the words, joined
CkWindow(k) ==
    join(SubSeq(CkWords, k * CkStep + 1, Min(k * CkStep + ck.chunk_size, Len(CkWords))))

\* the number of k >= 0 with k * step < number of words
CkWindowCount == (Len(CkWords) + CkStep - 1) \div CkStep

\* C1: with overlap >= chunk_size a call of split_into_chunks ends in an error; it
\* returns no chunk list, not even an empty one.
C1_NonAdvancingStepIsRejected ==
    (ck.pc = "done" /\ ck.overlap >= ck.chunk_size) => ck.result.kind = "raise"

\* C2: with 0 <= overlap < chunk_size the call returns exactly the successive
\* windows words[k*step : k*step + chunk_size], k = 0, 1, ... while k*step is below
\* the word count (so the result is a function of the inputs alone), and every word
\* of the text, by position, lies in one of the returned chunks.
C2_WindowsCoverEveryWord ==
    (ck.pc = "done" /\ 0 <= ck.overlap /\ ck.overlap < ck.chunk_size) =>
        /\ ck.result.kind = "return"
        /\ Len(ck.result.chunks) = CkWindowCount
        /\ \A k \in 0..(CkWindowCount - 1) : ck.result.chunks[k + 1] = CkWindow(k)
        /\ \A j \in 1..Len(CkWords) :
              \E k \in 0..(Len(ck.result.chunks) - 1) :
                  /\ k * CkStep < j
                  /\ j <= k * CkStep + ck.chunk_size
                  /\ j - k * CkStep <= Len(str_split(ck.result.chunks[k + 1]))
                  /\ str_split(ck.result.chunks[k + 1])[j - k * CkStep] = CkWords[j]

\* three words in overlapping windows of two, the last window a partial one
C2_Witness ==
    /\ ck.pc = "done"
    /\ ck.chunk_size = 2
    /\ ck.overlap = 1
    /\ Len(CkWords) = 3
    /\ Len(ck.result.chunks) = 3
    /\ ck.result.chunks[3] = CkWords[3]

(***************************************************************************)
(* Properties of the vector store and the answerer (Spec).                 *)
(***************************************************************************)
EnvOk == [embed_ok |-> TRUE, index_ok |-> TRUE]

\* the rows of one result slot: (document, metadata) pairs
Rows(r) ==
    IF r.documents = <<>> THEN {}
    ELSE {<<r.documents[1][j], r.metadatas[1][j]>> : j \in 1..Len(r.documents[1])}

\* C3: after an add_documents that stored chunks under folder F, a search for the
\* exact text of one of the chunks with filter F returns a row with that text under
\* F, and the same search with another folder G as filter returns no such row.  (F
\* and G are non-empty folder names; the services answer.)
C3_AddThenSearchFindsChunk ==
    (last.op = "add" /\ last.outcome = "stored" /\ Truthy(last.metadata.folder_path)) =>
        \A i \in 1..Len(last.chunks), n \in 1..MaxN :
            LET F == last.metadata.folder_path
                Found(r) == \E row \in Rows(r) :
                                row[1] = last.chunks[i] /\ row[2].folder_path = F
            IN  /\ \A r \in search(Store, last.chunks[i], n, F, EnvOk) : Found(r)
                /\ \A G \in {g \in Filters \ {None, F} : Truthy(g)} :
                       \A r \in search(Store, last.chunks[i], n, G, EnvOk) : ~Found(r)

\* C4: a search given a folder_path (any string, "" included; only None is no
\* folder_path) returns only rows whose folder_path metadata equals it, and at most
\* n_results rows.
C4_SuppliedFolderFiltersExactly ==
    (last.op = "search" /\ last.result.kind = "return" /\ last.folder_path # None) =>
        /\ \A row \in Rows(last.result) : row[2].folder_path = last.folder_path
        /\ last.result.documents # <<>> => Len(last.result.documents[1]) <= last.n_results

\* C5: once clear_collection has returned True, whatever its delete and create
\* steps did, every search returns no documents and get_indexed_folders returns [].
C5_ClearedStoreIsEmpty ==
    (last.op = "clear" /\ last.ret = TRUE) =>
        /\ \A q \in Queries, n \in 1..MaxN, folder \in Filters :
               \A r \in search(Store, q, n, folder, EnvOk) : Rows(r) = {}
        /\ get_indexed_folders(Store, EnvOk) = <<>>

\* C6: clear_collection returns (it does not raise), also when there are no entries
\* or no collection; it returns False only when the create step and the fallback
\* get-or-create both failed; when it returns True the collection exists and the
\* store's handle refers to it.
C6_ClearReturnsUsableOrFalse ==
    last.op = "clear" =>
        /\ last.kind = "return"
        /\ last.ret = FALSE => (last.create = FALSE /\ last.fallback = "failed")
        /\ last.ret = TRUE =>
               /\ exists
               /\ handle = "live"
               /\ add_documents(Store, <<"a">>, [file_path |-> Report.file_path,
                                                 file_name |-> Report.file_name,
                                                 file_type |-> Report.file_type,
                                                 folder_path |-> "/docs/a"],
                                file_id_of(Report.file_path), EnvOk).kind = "return"
               /\ \A r \in search(Store, "a", 1, None, EnvOk) : r.kind = "return"

\* clear_collection called with no collection there: it recreated it
C6_Witness ==
    /\ last.op = "clear"
    /\ last.existed = FALSE
    /\ last.ret = TRUE
    /\ exists
    /\ handle = "live"

\* the ids {file_id}_{i} of an add
IdsOf(l) == {entry_id(l.file_id, i - 1) : i \in 1..Len(l.chunks)}

\* C7: an add_documents of a file whose ids {file_id}_{i} are exactly the ones
\* already stored for it (same file, same number of chunks) leaves the number of
\* rows unchanged and leaves under each id the text and the metadata of this add.
C7_ReAddOverwrites ==
    [][(/\ last'.op = "add"
        /\ last'.outcome = "stored"
        /\ {x \in DOMAIN entries : x[1] = last'.file_id} = IdsOf(last'))
       => /\ Cardinality(DOMAIN entries') = Cardinality(DOMAIN entries)
          /\ \A i \in 1..Len(last'.chunks) :
                LET x == entry_id(last'.file_id, i - 1)
                IN  /\ x \in DOMAIN entries'
                    /\ entries'[x].document = last'.chunks[i]
                    /\ entries'[x].metadata = metadatas_of(last'.chunks, last'.metadata)[i]]_vars

\* the rows of a file that some search of the store st returns
RowsReturnedOf(st, fid) ==
    UNION {UNION {{row \in Rows(r) : file_id_of(row[2].file_path) = fid}
                     : r \in search(st, q, n, folder, EnvOk)}
              : <<q, n, folder>> \in Queries \X (1..MaxN) \X Filters}

\* C8 as stated: an add_documents with no chunks returns without an embedding call
\* and changes nothing; one whose embedding call fails returns, leaves the rows as
\* they were, and no later search returns a row of that file.
C8_FailedAddLeavesNoRowOfFile ==
    [][last'.op = "add"
       => /\ last'.chunks = <<>> =>
                (last'.kind = "return" /\ last'.embed_calls = 0 /\ entries' = entries)
          /\ (last'.chunks # <<>> /\ ~last'.embed_ok) =>
                /\ last'.kind = "return"
                /\ entries' = entries
                /\ RowsReturnedOf([exists |-> exists', entries |-> entries',
                                   handle |-> handle'], last'.file_id) = {}]_vars

\* C8 amended: an add_documents with no chunks returns without an embedding call
\* and changes nothing; one whose embedding call fails returns and leaves the rows
\* as they were, so a later search returns of that file only rows stored before the
\* call: none when the file was not in the index.
C8_FailedAddLeavesRowsAsTheyWere ==
    /\ [][last'.op = "add"
          => /\ last'.chunks = <<>> =>
                   (last'.kind = "return" /\ last'.embed_calls = 0 /\ entries' = entries)
             /\ (last'.chunks # <<>> /\ ~last'.embed_ok) =>
                   /\ last'.kind = "return"
                   /\ last'.outcome = "embed_failed"
                   /\ entries' = entries
                   /\ exists' = exists
                   /\ handle' = handle]_vars
    /\ [](last.op = "add" /\ last.chunks # <<>> /\ ~last.embed_ok
            => /\ RowsReturnedOf(Store, last.file_id)
                     \subseteq {<<entries[x].document, entries[x].metadata>> :
                                   x \in {y \in DOMAIN entries : y[1] = last.file_id}}
               /\ ({y \in DOMAIN entries : y[1] = last.file_id} = {}
                      => RowsReturnedOf(Store, last.file_id) = {}))

\* an add whose embedding call failed, for a file that has rows from before
C8_Witness ==
    /\ last.op = "add"
    /\ last.chunks # <<>>
    /\ ~last.embed_ok
    /\ last.kind = "return"
    /\ \E x \in DOMAIN entries : x[1] = last.file_id
    /\ RowsReturnedOf(Store, last.file_id) # {}

\* C9: when the search of an ask_question gives no documents (an empty documents
\* list, as after a failed query embedding, or an empty first slot, as for an empty
\* index or a filter nothing matches), the request ends no_results with the fixed
\* message, no sources and no completion call.
C9_NoDocumentsNoCompletionCall ==
    (/\ last.op = "ask"
     /\ last.result.search.kind = "return"
     /\ \/ last.result.search.documents = <<>>
        \/ last.result.search.documents[1] = <<>>)
    => /\ last.result.kind = "return"
       /\ last.result.status = "no_results"
       /\ last.result.answer = NoResultsMessage
       /\ last.result.sources = <<>>
       /\ last.result.completion_calls = 0

\* a non-empty index asked under a folder nothing is stored under: an empty slot
C9_Witness ==
    /\ last.op = "ask"
    /\ entries # NoEntries
    /\ last.folder_path = "/docs/b"
    /\ last.result.search.documents = << <<>> >>
    /\ last.result.status = "no_results"

\* the file names of the retrieved rows, in ranked order
RetrievedNames(r) == [j \in 1..Len(r.metadatas[1]) |-> r.metadatas[1][j].file_name]

\* srcs lists every name of names once, in the order of first appearance
FirstSeenOrder(names, srcs) ==
    /\ {srcs[i] : i \in 1..Len(srcs)} = {names[j] : j \in 1..Len(names)}
    /\ \A i, j \in 1..Len(srcs) : i # j => srcs[i] # srcs[j]
    /\ \A i, j \in 1..Len(srcs) :
           i < j => \E a \in 1..Len(names) :
                        /\ names[a] = srcs[i]
                        /\ \A b \in 1..Len(names) : names[b] = srcs[j] => a < b

\* the index holds the three chunks of report.pdf under /docs/a and nothing else
OnlyTheReport ==
    /\ DOMAIN entries = {entry_id(file_id_of(Report.file_path), i) : i \in 0..2}
    /\ \A x \in DOMAIN entries : entries[x].metadata.folder_path = "/docs/a"

\* C10: when the search returned at least one chunk and the completion succeeded,
\* the request ends success with the model output as answer and as sources the
\* file names of the retrieved rows, each once, in order of first appearance.  With
\* only the three-chunk report.pdf under /docs/a in the index that is [report.pdf]
\* for folder_path /docs/a, and a request for /docs/b ends no_results.
C10_SuccessListsSourcesFirstSeen ==
    last.op = "ask" =>
        /\ (/\ last.result.search.kind = "return"
            /\ last.result.search.documents # <<>>
            /\ last.result.search.documents[1] # <<>>
            /\ last.completion = "ok")
           => /\ last.result.kind = "return"
              /\ last.result.status = "success"
              /\ last.result.answer = ModelOutput
              /\ FirstSeenOrder(RetrievedNames(last.result.search), last.result.sources)
              /\ (OnlyTheReport /\ last.folder_path = "/docs/a")
                     => last.result.sources = <<"report.pdf">>
        /\ (OnlyTheReport /\ last.folder_path = "/docs/b" /\ last.result.kind = "return")
               => last.result.status = "no_results"

\* rows of both files retrieved, a name repeated after the other name
C10_Witness ==
    /\ last.op = "ask"
    /\ last.result.status = "success"
    /\ Len(last.result.search.documents[1]) >= 3
    /\ Len(last.result.sources) = 2
    /\ \E a, b, c \in 1..Len(last.result.search.metadatas[1]) :
           /\ a < b
           /\ b < c
           /\ last.result.search.metadatas[1][a].file_name = last.result.search.metadatas[1][c].file_name
           /\ last.result.search.metadatas[1][a].file_name # last.result.search.metadatas[1][b].file_name

\* C11: when the search returned at least one chunk and the completion call fails,
\* by an exception or by a response the answer cannot be read from, ask_question
\* returns status error, the answer carrying the failure detail, no sources; one
\* completion request was made and nothing is raised.
C11_CompletionFailureIsErrorResult ==
    (/\ last.op = "ask"
     /\ last.result.search.kind = "return"
     /\ ~no_documents(last.result.search)
     /\ last.completion \in {"exception", "malformed"})
    => /\ last.result.kind = "return"
       /\ last.result.status = "error"
       /\ last.result.answer = ErrorAnswer
       /\ last.result.sources = <<>>
       /\ last.result.completion_calls = 1

\* rows of two files retrieved, then a response without a readable answer
C11_Witness ==
    /\ last.op = "ask"
    /\ last.completion = "malformed"
    /\ last.result.search.kind = "return"
    /\ Len(last.result.search.documents) = 1
    /\ Len(last.result.search.documents[1]) >= 2
    /\ last.result.status = "error"

\* C13: every ask_question request, whatever the embedding call, the index query
\* and the completion call do, returns a result with status success, no_results
\* or error; it never ends in a raised exception.
C13_AskAlwaysReturnsStructuredResult ==
    last.op = "ask" =>
        /\ last.result.kind = "return"
        /\ last.result.status \in {"success", "no_results", "error"}

(***************************************************************************)
(* Properties of the /index and /chat handlers (SpecIndex).                *)
(***************************************************************************)
\* the file names the summary of the request lists
IndexedNames == {req.response.indexed_files[k] : k \in 1..Len(req.response.indexed_files)}

\* the ids {file_id}_{i} of the chunks of a handled file
ChunkIds(h) == {entry_id(file_id_of(h.file.file_path), i - 1) : i \in 1..Len(h.chunks)}

\* C12: an /index request over discovered files handles every one of them, whatever
\* fails at one file (extraction, chunking, embedding, the index add): each file is
\* extracted and, when extracted, chunked and handed to add_documents, and the
\* request ends with its summary.
C12_FileFailureDoesNotAbortBatch ==
    (req.pc = "done" /\ req.files # <<>>)
    => /\ Len(req.handled) = Len(req.files)
       /\ \A k \in 1..Len(req.handled) :
              /\ req.handled[k].file = req.files[k]
              /\ req.handled[k].status = "success"
                     => req.handled[k].outcome \in {"noop", "embed_failed", "raised", "stored"}
       /\ req.response.kind = "return"
       /\ req.response.status = "success"

\* C14: a /chat search served between the files of an /index request sees, of every
\* file the request has stored, all the chunks: each id {file_id}_{i} is in the index
\* with the i-th chunk as its document, and a retrieved row of the file with a
\* chunk index of the file shows that chunk.  Only files not yet handled may be
\* missing.
C14_SearchSeesWholeFiles ==
    (req.pc = "files" /\ last.op = "chat" /\ last.response.kind = "return")
    => \A k \in 1..Len(req.handled) :
           req.handled[k].outcome = "stored"
           => LET h == req.handled[k]
                  sr == last.response.result.search
              IN  /\ \A i \in 1..Len(h.chunks) :
                         LET x == entry_id(file_id_of(h.file.file_path), i - 1)
                         IN  /\ x \in DOMAIN entries
                             /\ entries[x].document = h.chunks[i]
                  /\ sr.documents # <<>>
                         => \A j \in 1..Len(sr.documents[1]) :
                                (/\ sr.metadatas[1][j].file_path = h.file.file_path
                                 /\ sr.metadatas[1][j].chunk_index < Len(h.chunks))
                                => sr.documents[1][j]
                                       = h.chunks[sr.metadatas[1][j].chunk_index + 1]

\* C15: when an /index request returns status success, every file it lists in
\* indexed_files that came to at least one chunk has all its ids {file_id}_{i} in
\* the index, the counts count the listed files, and a file whose embedding call
\* failed in add_documents is not listed.
C15_IndexedFilesAreInTheIndex ==
    (req.pc = "done" /\ req.response.kind = "return" /\ req.response.status = "success")
    => /\ req.response.total_files = Len(req.response.indexed_files)
       /\ req.response.total_files = req.response.pdf_count + req.response.word_count
                                         + req.response.pp_count + req.response.excel_count
       /\ \A k \in 1..Len(req.handled) :
              LET h == req.handled[k]
              IN  /\ (h.file.file_name \in IndexedNames /\ h.chunks # <<>>)
                         => ChunkIds(h) \subseteq DOMAIN entries
                  /\ h.outcome = "embed_failed" => h.file.file_name \notin IndexedNames

====
